---- MODULE Spec2Model ----
(***************************************************************************)
(* A model of xerpihan.py, a Streamlit dashboard script.                   *)
(*                                                                         *)
(* The script is run top to bottom once per page view.  load_data() is     *)
(* memoized by st.cache_data for the life of the process; everything else  *)
(* (the halt test, the selected page's try-blocks, the footer) is run      *)
(* again on every view.  One action, PageView, is one run of the script.   *)
(*                                                                         *)
(* Text is modelled as TLA+ strings and is taken apart character by        *)
(* character where the code does so (number parsing, the 'Growth'          *)
(* substring test).  A float is the integer number of hundredths it        *)
(* stands for; all tokens of the model have at most two decimals.          *)
(***************************************************************************)
EXTENDS Integers, Sequences, FiniteSets, TLC

VARIABLES
    disk,         \* file name -> content of that file in the working directory
    cache,        \* st.cache_data's entry for load_data()
    reads,        \* the files pd.read_csv was called on, in order, this session
    loads,        \* how many times the body of load_data ran
    pc,           \* "idle" before the first view, then "stopped" or "rendered"
    page,         \* the sidebar's page of the last view
    dataset_name, \* the Overview selectbox's choice in the last view
    axes,         \* the Financial Analysis selectboxes' choice in the last view
    data,         \* the script's `data` tuple as it stands when the run ends
    out,          \* the elements the last view put on the page, in order
    staleness     \* 0: no file written since the load; 1: one was, since the
                  \* last view; 2: the last view ran after one was

vars ==
    <<disk, cache, reads, loads, pc, page, dataset_name, axes, data, out, staleness>>

(***************************************************************************)
(* Bounds                                                                  *)
(***************************************************************************)
MaxLoads == 2
MaxRows == 2
MaxCols == 4

(***************************************************************************)
(* Files, pages, the year columns                                          *)
(***************************************************************************)
CombinedFile == "xerpihan_combined_data.csv"
GrowthFile == "xerpihan_combined_data_with_growth.csv"
MetricsFile == "xerpihan_comprehensive_metrics.csv"
SummaryFile == "xerpihan_final_summary.csv"
FinancialFile == "xerpihan_financial_metrics.csv"
ForecastFile == "xerpihan_forecast_combined.csv"

\* The order of the six pd.read_csv calls, which is the order of the tuple.
ReadOrder ==
    <<CombinedFile, GrowthFile, MetricsFile, SummaryFile, FinancialFile, ForecastFile>>

FileNames == {ReadOrder[i] : i \in DOMAIN ReadOrder}

Pages ==
    {"Overview", "Financial Analysis", "Risk Analysis", "Portfolio Optimization",
     "Forecasting"}

DatasetNames ==
    {"Combined Data", "Growth Data", "Metrics", "Final Summary", "Financial Metrics"}

\* [str(year) for year in range(2024, 2032)]
years == <<"2024", "2025", "2026", "2027", "2028", "2029", "2030", "2031">>

KpiColumns == <<"Revenue_CAGR", "Avg_EBITDA_Margin", "Cost_to_Revenue">>

(***************************************************************************)
(* Sequences                                                               *)
(***************************************************************************)
Range(s) == {s[i] : i \in DOMAIN s}

RECURSIVE SelectIdx(_, _, _)
\* The subsequence of s at the indices in keep, in s's order.
SelectIdx(s, keep, i) ==
    IF i > Len(s) THEN <<>>
    ELSE (IF i \in keep THEN <<s[i]>> ELSE <<>>) \o SelectIdx(s, keep, i + 1)

(***************************************************************************)
(* Cells.  NaN is pandas' missing value.                                   *)
(***************************************************************************)
NaN == [t |-> "nan", v |-> 0, s |-> ""]
Num(n) == [t |-> "num", v |-> n, s |-> ""]
Str(x) == [t |-> "str", v |-> 0, s |-> x]

IsNull(c) == c.t = "nan"

(***************************************************************************)
(* Parsing a decimal token: [sign] digits [. digits], nothing else.        *)
(***************************************************************************)
Digits == {"0", "1", "2", "3", "4", "5", "6", "7", "8", "9"}

DigitVal(ch) ==
    CASE ch = "0" -> 0 [] ch = "1" -> 1 [] ch = "2" -> 2 [] ch = "3" -> 3
      [] ch = "4" -> 4 [] ch = "5" -> 5 [] ch = "6" -> 6 [] ch = "7" -> 7
      [] ch = "8" -> 8 [] ch = "9" -> 9

Char(s, i) == SubSeq(s, i, i)

RECURSIVE Pow10(_)
Pow10(n) == IF n = 0 THEN 1 ELSE 10 * Pow10(n - 1)

\* Hundredths: the model's unit for a float.
FracDigits == 2

\* Where the digits of s start: after one leading sign, if any.
Body(s) == IF Len(s) > 0 /\ Char(s, 1) \in {"-", "+"} THEN SubSeq(s, 2, Len(s)) ELSE s

DotPlaces(s) == {i \in 1..Len(s) : Char(s, i) = "."}

IsNumeric(s) ==
    LET b == Body(s)
    IN  /\ \E i \in 1..Len(b) : Char(b, i) \in Digits
        /\ \A i \in 1..Len(b) : Char(b, i) \in Digits \cup {"."}
        /\ Cardinality(DotPlaces(b)) <= 1

RECURSIVE DigitsVal(_, _)
\* The integer the digits of s spell, the point skipped, after acc.
DigitsVal(s, acc) ==
    IF Len(s) = 0 THEN acc
    ELSE IF Char(s, 1) = "." THEN DigitsVal(SubSeq(s, 2, Len(s)), acc)
    ELSE DigitsVal(SubSeq(s, 2, Len(s)), 10 * acc + DigitVal(Char(s, 1)))

\* The value of a numeric token, in hundredths.
ParseFloat(s) ==
    LET b == Body(s)
        dots == DotPlaces(b)
        frac == IF dots = {} THEN 0 ELSE Len(b) - (CHOOSE i \in dots : TRUE)
        mag == DigitsVal(b, 0) * Pow10(FracDigits - frac)
    IN  IF Len(s) > 0 /\ Char(s, 1) = "-" THEN 0 - mag ELSE mag

(***************************************************************************)
(* pd.read_csv: a file's text to a DataFrame.                              *)
(***************************************************************************)
\* Tokens read_csv takes for a missing value (a part of its default list).
NaValues == {"", "NA", "NaN", "nan", "null"}

\* A column of tokens: numeric when every token that is not missing is.
InferColumn(tokens) ==
    IF \A i \in DOMAIN tokens : tokens[i] \in NaValues \/ IsNumeric(tokens[i])
    THEN [i \in DOMAIN tokens |->
            IF tokens[i] \in NaValues THEN NaN ELSE Num(ParseFloat(tokens[i]))]
    ELSE [i \in DOMAIN tokens |->
            IF tokens[i] \in NaValues THEN NaN ELSE Str(tokens[i])]

\* A DataFrame: the column names in order, and each column's cells.
ParseCsv(file) ==
    [cols |-> file.cols,
     col |-> [c \in Range(file.cols) |-> InferColumn(file.col[c])]]

\* Python's None in a slot of the `data` tuple: no frame read_csv returns
\* equals it.
None == [cols |-> <<"None">>, col |-> [c \in {"None"} |-> <<>>]]

(***************************************************************************)
(* File contents                                                           *)
(***************************************************************************)
Missing == [kind |-> "missing", reason |-> "", cols |-> <<>>, col |-> <<>>]
Garbled(r) == [kind |-> "garbled", reason |-> r, cols |-> <<>>, col |-> <<>>]
Csv(cs, body) == [kind |-> "csv", reason |-> "", cols |-> cs, col |-> body]

\* str(e) of the ParserError pandas raises on a file of ragged lines, and of
\* the EmptyDataError it raises on a file with no header.
ParseReason == "Error tokenizing data. C error: Expected 2 fields in line 3, saw 5"
EmptyReason == "No columns to parse from file"

\* Whether pd.read_csv returns a frame for the file.
Readable(file) == file.kind = "csv" /\ file.cols # <<>>

(***************************************************************************)
(* Text                                                                    *)
(***************************************************************************)
\* Python's `pat in s` on strings.
Contains(s, pat) ==
    \E i \in 1..(Len(s) - Len(pat) + 1) : SubSeq(s, i, i + Len(pat) - 1) = pat

(***************************************************************************)
(* Page elements: what st.error, st.warning, st.metric, st.plotly_chart,   *)
(* st.download_button, st.dataframe and the footer's st.markdown put on    *)
(* the page.  Titles, headers and layout columns are left out.             *)
(***************************************************************************)
Element(k, sl, tx, fr) == [kind |-> k, slot |-> sl, text |-> tx, frame |-> fr]

Error(sl, tx) == Element("error", sl, tx, None)
Chart(sl, title, fr) == Element("chart", sl, title, fr)

(***************************************************************************)
(* load_data                                                               *)
(***************************************************************************)
\* The exception pd.read_csv raises on a file that is not a readable table.
ReadError(name, file) ==
    IF file.kind = "missing"
    THEN [type |-> "FileNotFoundError", filename |-> name,
          str |-> "[Errno 2] No such file or directory: '" \o name \o "'"]
    ELSE IF file.kind = "csv"
    THEN [type |-> "EmptyDataError", filename |-> "", str |-> EmptyReason]
    ELSE [type |-> "ParserError", filename |-> "", str |-> file.reason]

\* As FileNotFoundMessage, the file's name not put into the text.
FileNotFoundMessageUnnamed(e) ==
    "Error: File tidak ditemukan. Pastikan semua file CSV ada di direktori yang benar."

FileNotFoundMessage(e) ==
    "Error: File '" \o e.filename
        \o "' tidak ditemukan. Pastikan semua file CSV ada di direktori yang benar."

LoadErrorMessage(e) ==
    "Error saat memuat data: " \o e.str
        \o ". Periksa format file CSV dan pastikan kolom yang diharapkan ada."

RECURSIVE ReadFromPartial(_, _, _, _)
\* As ReadFrom, but a failed read returns the frames read before it and None
\* for the rest.
ReadFromPartial(d, i, tables, log) ==
    IF i > Len(ReadOrder)
    THEN [value |-> tables, elements |-> <<>>, readlog |-> log]
    ELSE LET name == ReadOrder[i]
             e == ReadError(name, d[name])
         IN  IF Readable(d[name])
             THEN ReadFromPartial(d, i + 1, Append(tables, ParseCsv(d[name])),
                                  Append(log, name))
             ELSE [value |-> tables \o [k \in 1..(Len(ReadOrder) - Len(tables)) |-> None],
                   elements |->
                       <<Error("load_data",
                               IF e.type = "FileNotFoundError"
                               THEN FileNotFoundMessage(e)
                               ELSE LoadErrorMessage(e))>>,
                   readlog |-> Append(log, name)]

RECURSIVE ReadFrom(_, _, _, _)
\* The try block from its i-th read on: tables holds the frames read so far,
\* log the files read_csv was called on.
ReadFrom(d, i, tables, log) ==
    IF i > Len(ReadOrder)
    THEN [value |-> tables, elements |-> <<>>, readlog |-> log]
    ELSE LET name == ReadOrder[i]
             e == ReadError(name, d[name])
         IN  IF Readable(d[name])
             THEN ReadFrom(d, i + 1, Append(tables, ParseCsv(d[name])), Append(log, name))
             ELSE [value |-> <<None, None, None, None, None, None>>,
                   elements |->
                       <<Error("load_data",
                               IF e.type = "FileNotFoundError"
                               THEN FileNotFoundMessage(e)
                               ELSE LoadErrorMessage(e))>>,
                   readlog |-> Append(log, name)]

\* One run of the body of load_data against the files as they are now.
LoadBody(d) == ReadFrom(d, 1, <<>>, <<>>)

(***************************************************************************)
(* st.cache_data: the first call runs the body and stores its return       *)
(* value and the elements it drew; a later call returns a copy of the      *)
(* stored value and draws the stored elements again, the body not run.     *)
(***************************************************************************)
NotCached == [full |-> FALSE, value |-> <<>>, elements |-> <<>>]

\* As CacheHit, for a function that is not memoized.
CacheHitNever(c) == FALSE

CacheHit(c) == c.full

\* What load_data() hands back, and what the call leaves behind.
CachedLoad(c, d) ==
    IF CacheHit(c)
    THEN [value |-> c.value, elements |-> c.elements, readlog |-> <<>>,
          ran |-> 0, cache |-> c]
    ELSE LET r == LoadBody(d)
         IN  [value |-> r.value, elements |-> r.elements, readlog |-> r.readlog,
              ran |-> 1,
              cache |-> [full |-> TRUE, value |-> r.value, elements |-> r.elements]]

\* if data[0] is None: st.stop()
Halts(value) == value[1] = None

(***************************************************************************)
(* DataFrames                                                              *)
(***************************************************************************)
HasCol(df, c) == c \in Range(df.cols)

\* str(KeyError(c))
KeyErrorStr(c) == "'" \o c \o "'"

\* df[c] = cells, for a column df has.
SetCol(df, c, cells) == [df EXCEPT !.col[c] = cells]

\* df[mask]: the rows at the indices in keep.
FilterRows(df, keep) ==
    [cols |-> df.cols,
     col |-> [c \in Range(df.cols) |-> SelectIdx(df.col[c], keep, 1)]]

\* A frame the script builds from literals: its columns, the numbers left out.
Literal(cs) == [cols |-> cs, col |-> [c \in Range(cs) |-> <<>>]]

\* px.line, px.bar, px.scatter: the columns named by x, y and color must exist.
PxAccepts(df, names) == \A i \in DOMAIN names : HasCol(df, names[i])

\* str(e) of the ValueError plotly express raises otherwise (its first sentence).
PxErrorStr == "Value of 'x' is not the name of a column in 'data_frame'"

(***************************************************************************)
(* Overview: the KPI tiles (lines 52-70)                                   *)
(***************************************************************************)
\* pd.to_numeric(errors='coerce') on one cell.
Coerce(c) ==
    IF c.t = "str" THEN (IF IsNumeric(c.s) THEN Num(ParseFloat(c.s)) ELSE NaN) ELSE c

ToNumeric(cells) == [i \in DOMAIN cells |-> Coerce(cells[i])]

RECURSIVE CoerceFrom(_, _)
\* The three assignments metrics[c] = pd.to_numeric(metrics[c], ...) from the
\* i-th on; raised is the column whose lookup raised KeyError, "" if none did.
CoerceFrom(m, i) ==
    IF i > Len(KpiColumns) THEN [metrics |-> m, raised |-> ""]
    ELSE IF ~HasCol(m, KpiColumns[i]) THEN [metrics |-> m, raised |-> KpiColumns[i]]
    ELSE CoerceFrom(SetCol(m, KpiColumns[i], ToNumeric(m.col[KpiColumns[i]])), i + 1)

\* metrics[[...]].isnull().any().any()
AnyNull(m) ==
    \E k \in DOMAIN KpiColumns :
        \E i \in DOMAIN m.col[KpiColumns[k]] : IsNull(m.col[KpiColumns[k]][i])

RECURSIVE SumCells(_, _)
\* The sum of the cells of a numeric column from the i-th on, missing ones skipped.
SumCells(cells, i) ==
    IF i > Len(cells) THEN 0
    ELSE (IF IsNull(cells[i]) THEN 0 ELSE cells[i].v) + SumCells(cells, i + 1)

CountCells(cells) == Cardinality({i \in DOMAIN cells : ~IsNull(cells[i])})

\* a / n to the nearest integer, for a >= 0 and n > 0.  A tie goes to the even
\* neighbour: the tie of the decimal quotient, not of the binary float.
RoundDiv(a, n) ==
    LET q == a \div n
        r == a % n
    IN  IF 2 * r > n \/ (2 * r = n /\ q % 2 = 1) THEN q + 1 ELSE q

\* f"{x:.2f}" of the float sum/n, sum in hundredths.
Format2f(sum, n) ==
    LET a == IF sum < 0 THEN 0 - sum ELSE sum
        h == RoundDiv(a, n)
        unit == Pow10(FracDigits)
        frac == h % unit
    IN  (IF sum < 0 THEN "-" ELSE "")
            \o ToString(h \div unit) \o "."
            \o (IF frac < 10 THEN "0" ELSE "") \o ToString(frac)

\* As MeanText, a missing cell counted as a zero.
MeanTextAllRows(cells) ==
    IF Len(cells) = 0 THEN "nan%"
    ELSE Format2f(SumCells(cells, 1), Len(cells)) \o "%"

\* f"{metrics[c].mean():.2f}%": Series.mean() skips missing cells and is NaN
\* when none is left.
MeanText(cells) ==
    IF CountCells(cells) = 0 THEN "nan%"
    ELSE Format2f(SumCells(cells, 1), CountCells(cells)) \o "%"

KpiLabels ==
    <<"Rata-rata Revenue CAGR", "Rata-rata EBITDA Margin", "Rata-rata Efisiensi Biaya">>

KpiWarning ==
    "Beberapa data numerik tidak valid dan diubah menjadi NaN. Periksa data Anda."

\* The first try block of the Overview page: what it draws, and the metrics
\* frame as the block leaves it.
OverviewKpi(m) ==
    LET r == CoerceFrom(m, 1)
    IN  IF r.raised # ""
        THEN [metrics |-> r.metrics,
              out |-> <<Error("kpi", "Error saat mengkonversi data numerik: "
                                        \o KeyErrorStr(r.raised))>>]
        ELSE [metrics |-> r.metrics,
              out |->
                  (IF AnyNull(r.metrics)
                   THEN <<Element("warning", "kpi", KpiWarning, None)>> ELSE <<>>)
                  \o [k \in 1..Len(KpiColumns) |->
                        Element("metric", KpiLabels[k],
                                MeanText(r.metrics.col[KpiColumns[k]]), None)]]

(***************************************************************************)
(* The revenue lines: Overview (lines 74-86) and Forecasting (207-219)     *)
(***************************************************************************)
\* As RevenueLines, the year columns not looked for before charting.
RevenueLinesUnchecked(df, slot, msg) ==
    IF ~HasCol(df, "Category")
    THEN <<Error(slot, msg.except \o KeyErrorStr("Category"))>>
    ELSE LET keep == {i \in DOMAIN df.col["Category"] :
                        df.col["Category"][i] = Str("Pendapatan")}
             revenue_data == FilterRows(df, keep)
         IN  IF keep = {} THEN <<Error(slot, msg.empty)>>
             ELSE IF PxAccepts(revenue_data, <<"Scenario">> \o years)
             THEN <<Chart(slot, msg.title, revenue_data)>>
             ELSE <<Error(slot, msg.except \o PxErrorStr)>>

\* The try block on df; msg holds the block's three messages and its title.
RevenueLines(df, slot, msg) ==
    IF ~HasCol(df, "Category")
    THEN <<Error(slot, msg.except \o KeyErrorStr("Category"))>>
    ELSE LET keep == {i \in DOMAIN df.col["Category"] :
                        df.col["Category"][i] = Str("Pendapatan")}
             revenue_data == FilterRows(df, keep)
         IN  IF keep = {} THEN <<Error(slot, msg.empty)>>
             ELSE IF ~(\A i \in DOMAIN years : HasCol(revenue_data, years[i]))
             THEN <<Error(slot, msg.years)>>
             ELSE IF PxAccepts(revenue_data, <<"Scenario">> \o years)
             THEN <<Chart(slot, msg.title, revenue_data)>>
             ELSE <<Error(slot, msg.except \o PxErrorStr)>>

TrendMessages ==
    [empty |-> "Error: Tidak ada data pendapatan yang ditemukan.",
     years |-> "Error: Beberapa kolom tahun tidak ada di data pendapatan.",
     except |-> "Error saat membuat visualisasi tren pendapatan: ",
     title |-> "Tren Pendapatan (2024-2031)"]

ForecastMessages ==
    [empty |-> "Error: Tidak ada data peramalan pendapatan yang ditemukan.",
     years |-> "Error: Beberapa kolom tahun tidak ada di data peramalan.",
     except |-> "Error saat membuat visualisasi peramalan pendapatan: ",
     title |-> "Peramalan Pendapatan (2024-2031)"]

(***************************************************************************)
(* Overview: downloads and exploration (lines 88-100)                      *)
(***************************************************************************)
\* The dict `datasets`, over the run's six frames t.
Datasets(t) ==
    [n \in DatasetNames |->
        CASE n = "Combined Data" -> t[1]
          [] n = "Growth Data" -> t[2]
          [] n = "Metrics" -> t[3]
          [] n = "Final Summary" -> t[4]
          [] n = "Financial Metrics" -> t[5]]

\* The whole Overview branch: the frames as it leaves them, and what it draws.
Overview(t, choice) ==
    LET kpi == OverviewKpi(t[3])
        after == [t EXCEPT ![3] = kpi.metrics]
    IN  [data |-> after,
         out |-> kpi.out
                 \o RevenueLines(after[1], "trend", TrendMessages)
                 \o <<Element("download", "financial_metrics.csv", "", after[5]),
                      Element("download", "final_summary.csv", "", after[4]),
                      Element("dataframe", choice, "", Datasets(after)[choice])>>]

(***************************************************************************)
(* Financial Analysis (lines 103-136)                                      *)
(***************************************************************************)
\* One px chart in its own try block.
PxBlock(df, names, slot, title, prefix) ==
    IF PxAccepts(df, names) THEN <<Chart(slot, title, df)>>
    ELSE <<Error(slot, prefix \o PxErrorStr)>>

\* A column select_dtypes(include=[np.number]) keeps: read_csv gives a column
\* of no rows the object dtype.
IsNumberColumn(cells) ==
    Len(cells) > 0 /\ \A i \in DOMAIN cells : cells[i].t \in {"num", "nan"}

NumericCols(df) ==
    SelectIdx(df.cols, {i \in DOMAIN df.cols : IsNumberColumn(df.col[df.cols[i]])}, 1)

NoAxes == <<"", "">>

\* What the two selectboxes can return: nothing when they are not drawn.
AxisChoices(df) ==
    IF NumericCols(df) = <<>> THEN {NoAxes}
    ELSE Range(NumericCols(df)) \X Range(NumericCols(df))

CustomScatter(df, ax) ==
    IF NumericCols(df) = <<>>
    THEN <<Error("custom",
                 "Error: Tidak ada kolom numerik yang ditemukan di financial_metrics.")>>
    ELSE PxBlock(df, <<ax[1], ax[2], "Scenario">>, "custom",
                 ax[2] \o " vs " \o ax[1] \o " per Skenario",
                 "Error saat membuat visualisasi kustom: ")

FinancialAnalysis(t, ax) ==
    [data |-> t,
     out |-> PxBlock(t[5], <<"Scenario", "Revenue_CAGR", "Avg_EBITDA_Margin",
                             "Avg_Net_Margin">>,
                     "metrics", "Perbandingan Metrik Keuangan",
                     "Error saat membuat visualisasi metrik keuangan: ")
             \o PxBlock(t[4], <<"Scenario", "Revenue_CAGR", "EBITDA_CAGR">>,
                        "growth", "Metrik Pertumbuhan per Skenario",
                        "Error saat membuat visualisasi analisis pertumbuhan: ")
             \o CustomScatter(t[5], ax)]

(***************************************************************************)
(* Risk Analysis (lines 139-170)                                           *)
(***************************************************************************)
RiskColumns == <<"Scenario", "Revenue_Volatility", "Margin_Volatility">>

\* The first of the three lookups metrics[c] that raises KeyError, 0 if none.
FirstAbsent(df, names) ==
    IF \A i \in DOMAIN names : HasCol(df, names[i]) THEN 0
    ELSE CHOOSE i \in DOMAIN names :
            /\ ~HasCol(df, names[i])
            /\ \A j \in 1..(i - 1) : HasCol(df, names[j])

RiskMetrics(m) ==
    LET k == FirstAbsent(m, RiskColumns)
    IN  IF k # 0
        THEN <<Error("risk", "Error: Kolom " \o KeyErrorStr(RiskColumns[k])
                                \o " tidak ditemukan di data metrics.")>>
        ELSE <<Chart("risk", "Metrik Volatilitas per Skenario",
                     [cols |-> RiskColumns,
                      col |-> [c \in Range(RiskColumns) |-> m.col[c]]])>>

RiskAnalysis(t) ==
    [data |-> t,
     out |-> RiskMetrics(t[3])
             \o <<Chart("decomposition", "Dekomposisi Risiko per Skenario",
                        Literal(<<"Scenario", "Risk_Type", "Risk_Level">>))>>]

(***************************************************************************)
(* Portfolio Optimization (lines 173-200)                                  *)
(***************************************************************************)
PortfolioOptimization(t) ==
    [data |-> t,
     out |-> <<Chart("allocation", "Alokasi Portofolio per Metode",
                     Literal(<<"Method", "Scenario", "Weight">>)),
               Chart("performance", "Analisis Risiko-Hasil",
                     Literal(<<"Method", "Expected_Return", "Sharpe_Ratio">>))>>]

(***************************************************************************)
(* Forecasting (lines 203-230)                                             *)
(***************************************************************************)
\* As GrowthCols, the letters' case not told apart.
GrowthColsAnyCase(df) ==
    SelectIdx(df.cols,
              {i \in DOMAIN df.cols :
                 Contains(df.cols[i], "Growth") \/ Contains(df.cols[i], "growth")}, 1)

\* [col for col in growth_data.columns if 'Growth' in col]
GrowthCols(df) ==
    SelectIdx(df.cols, {i \in DOMAIN df.cols : Contains(df.cols[i], "Growth")}, 1)

RECURSIVE Melt(_, _, _)
\* df.melt(id_vars=['Scenario'], value_vars=vs) from the k-th of vs on: one
\* block of rows per value column.
Melt(df, vs, k) ==
    IF k > Len(vs) THEN [Scenario |-> <<>>, variable |-> <<>>, value |-> <<>>]
    ELSE LET rest == Melt(df, vs, k + 1)
         IN  [Scenario |-> df.col["Scenario"] \o rest.Scenario,
              variable |-> [i \in DOMAIN df.col[vs[k]] |-> Str(vs[k])] \o rest.variable,
              value |-> df.col[vs[k]] \o rest.value]

GrowthRates(df) ==
    LET growth_cols == GrowthCols(df)
        m == Melt(df, growth_cols, 1)
    IN  IF growth_cols = <<>>
        THEN <<Error("growth",
                     "Error: Tidak ada kolom pertumbuhan yang ditemukan di growth_data.")>>
        ELSE IF ~HasCol(df, "Scenario")
        THEN <<Error("growth", "Error saat membuat visualisasi analisis pertumbuhan: "
                        \o "The following id_vars or value_vars are not present in "
                        \o "the DataFrame: ['Scenario']")>>
        ELSE <<Chart("growth", "Distribusi Tingkat Pertumbuhan per Skenario",
                     [cols |-> <<"Scenario", "variable", "value">>,
                      col |-> [c \in {"Scenario", "variable", "value"} |->
                                 CASE c = "Scenario" -> m.Scenario
                                   [] c = "variable" -> m.variable
                                   [] c = "value" -> m.value]])>>

Forecasting(t) ==
    [data |-> t,
     out |-> RevenueLines(t[6], "forecast", ForecastMessages) \o GrowthRates(t[2])]

(***************************************************************************)
(* One run of the script                                                   *)
(***************************************************************************)
Footer == <<Element("markdown", "footer",
                    "Xerpihan Financial Analysis Dashboard | Dibuat dengan Streamlit",
                    None)>>

\* The if/elif chain over `page`.
Render(p, t, choice, ax) ==
    CASE p = "Overview" -> Overview(t, choice)
      [] p = "Financial Analysis" -> FinancialAnalysis(t, ax)
      [] p = "Risk Analysis" -> RiskAnalysis(t)
      [] p = "Portfolio Optimization" -> PortfolioOptimization(t)
      [] p = "Forecasting" -> Forecasting(t)

\* The inputs a view of page p can carry, given the frames it will see.
Choices(p, value) == IF p = "Overview" /\ ~Halts(value) THEN DatasetNames ELSE {""}

Axes(p, value) ==
    IF p = "Financial Analysis" /\ ~Halts(value) THEN AxisChoices(value[5]) ELSE {NoAxes}

PageView(p) ==
    /\ ~CacheHit(cache) => loads < MaxLoads
    /\ LET r == CachedLoad(cache, disk)
       IN  /\ cache' = r.cache
           /\ reads' = reads \o r.readlog
           /\ loads' = loads + r.ran
           /\ page' = p
           /\ \E choice \in Choices(p, r.value), ax \in Axes(p, r.value) :
                /\ dataset_name' = choice
                /\ axes' = ax
                /\ IF Halts(r.value)
                   THEN /\ pc' = "stopped"
                        /\ data' = r.value
                        /\ out' = r.elements
                   ELSE LET v == Render(p, r.value, choice, ax)
                        IN  /\ pc' = "rendered"
                            /\ data' = v.data
                            /\ out' = r.elements \o v.out \o Footer
    /\ staleness' = IF staleness = 0 THEN 0 ELSE 2
    /\ UNCHANGED disk

(***************************************************************************)
(* The world outside: a file is deleted, damaged or rewritten while the    *)
(* process is up.  A change before the first load is another initial       *)
(* state, so only changes after it are steps.                              *)
(***************************************************************************)
ChangeFile(name, content) ==
    /\ loads > 0
    /\ disk[name] # content
    /\ disk' = [disk EXCEPT ![name] = content]
    /\ staleness' = 1
    /\ UNCHANGED <<cache, reads, loads, pc, page, dataset_name, axes, data, out>>

(***************************************************************************)
(* The files of the model                                                  *)
(***************************************************************************)
ScenarioNames == <<"Optimistic", "Moderate", "Pessimistic", "Stress", "Base">>

\* A file of n rows whose Scenario column is the first n scenario names, whose
\* columns in given hold given[c], and whose other columns hold the token fill.
Table(cs, n, given, fill) ==
    Csv(cs, [c \in Range(cs) |->
                IF c \in DOMAIN given THEN given[c]
                ELSE IF c = "Scenario" THEN SubSeq(ScenarioNames, 1, n)
                ELSE [i \in 1..n |-> fill]])

SeriesCols == <<"Category", "Scenario">> \o years

CombinedCsv ==
    Table(SeriesCols, 2, [Category |-> <<"Pendapatan", "Biaya">>], "100")

ForecastCsv ==
    Table(SeriesCols, 2, [Category |-> <<"Biaya", "Pendapatan">>], "120")

GrowthCsv ==
    Table(<<"Scenario", "Revenue_Growth", "EBITDA_Growth", "Notes">>, 2,
          [Notes |-> <<"ok", "">>], "1.5")

SummaryCsv == Table(<<"Scenario", "Revenue_CAGR", "EBITDA_CAGR">>, 2, <<>>, "7.5")

MetricsCols ==
    <<"Scenario", "Revenue_CAGR", "Avg_EBITDA_Margin", "Cost_to_Revenue",
      "Revenue_Volatility", "Margin_Volatility">>

\* A metrics file with a token that is no number and an empty field.
MetricsCsv ==
    Table(MetricsCols, 2,
          [Revenue_CAGR |-> <<"4.0", "abc">>, Avg_EBITDA_Margin |-> <<"20.5", "">>],
          "0.6")

\* Metrics files without one of the KPI columns.
MetricsNoCostCsv ==
    Table(<<"Scenario", "Revenue_CAGR", "Avg_EBITDA_Margin", "Revenue_Volatility">>, 2,
          [Revenue_CAGR |-> <<"4.0", "abc">>], "0.6")

MetricsNoCagrCsv ==
    Table(<<"Scenario", "Avg_EBITDA_Margin", "Cost_to_Revenue", "Margin_Volatility">>, 2,
          <<>>, "0.6")

\* The financial-metrics table of the spec's scenario.
FinancialCsv ==
    Table(<<"Scenario", "Revenue_CAGR">>, 2, [Revenue_CAGR |-> <<"12.5", "8.0">>], "")

FinancialFullCsv ==
    Table(<<"Scenario", "Revenue_CAGR", "Avg_EBITDA_Margin", "Avg_Net_Margin">>, 2,
          [Revenue_CAGR |-> <<"12.5", "8.0">>], "3.25")

\* The well-formed contents the model gives each file.
Pool(name) ==
    CASE name = CombinedFile -> {CombinedCsv}
      [] name = GrowthFile -> {GrowthCsv}
      [] name = MetricsFile -> {MetricsCsv}
      [] name = SummaryFile -> {SummaryCsv}
      [] name = FinancialFile -> {FinancialCsv}
      [] name = ForecastFile -> {ForecastCsv}

Contents(name) == {Missing, Garbled(ParseReason)} \cup Pool(name)

Disk(c1, c2, c3, c4, c5, c6) ==
    (CombinedFile :> c1) @@ (GrowthFile :> c2) @@ (MetricsFile :> c3)
        @@ (SummaryFile :> c4) @@ (FinancialFile :> c5) @@ (ForecastFile :> c6)

\* The process has started and no page has been viewed yet.
Started ==
    /\ cache = NotCached
    /\ reads = <<>>
    /\ loads = 0
    /\ pc = "idle"
    /\ page = ""
    /\ dataset_name = ""
    /\ axes = NoAxes
    /\ data = <<>>
    /\ out = <<>>
    /\ staleness = 0

(***************************************************************************)
(* The session: every mix of present, absent and damaged files; pages are  *)
(* viewed and files change under the running process.                      *)
(***************************************************************************)
Init ==
    /\ \E c1 \in Contents(CombinedFile), c2 \in Contents(GrowthFile),
          c3 \in Contents(MetricsFile), c4 \in Contents(SummaryFile),
          c5 \in Contents(FinancialFile), c6 \in Contents(ForecastFile) :
            disk = Disk(c1, c2, c3, c4, c5, c6)
    /\ Started

Next ==
    \/ \E p \in Pages : PageView(p)
    \/ \E name \in FileNames : \E content \in Contents(name) : ChangeFile(name, content)

Spec == Init /\ [][Next]_vars

(***************************************************************************)
(* The presenter on its inputs: six well-formed files that stay as they    *)
(* are, one of them drawn from a range of shapes.                          *)
(***************************************************************************)
NextView == \E p \in Pages : PageView(p)

\* Metrics files of up to MaxRows rows: every filling of Revenue_CAGR and of
\* Avg_EBITDA_Margin with their tokens, Cost_to_Revenue all numbers or all empty.
KpiTokens ==
    [Revenue_CAGR |-> {"12.5", "8.0", "abc"},
     Avg_EBITDA_Margin |-> {"8.0", "abc"},
     Cost_to_Revenue |-> {"0.6", ""}]

KpiFiles ==
    {Table(MetricsCols, n,
           [Revenue_CAGR |-> a, Avg_EBITDA_Margin |-> b,
            Cost_to_Revenue |-> [i \in 1..n |-> c]], "0.6") :
        <<n, a, b, c>> \in
            UNION {{n} \X [1..n -> KpiTokens.Revenue_CAGR]
                       \X [1..n -> KpiTokens.Avg_EBITDA_Margin]
                       \X KpiTokens.Cost_to_Revenue : n \in 0..MaxRows}}

InitKpi ==
    /\ \E m \in KpiFiles \cup {MetricsNoCostCsv, MetricsNoCagrCsv} :
            disk = Disk(CombinedCsv, GrowthCsv, m, SummaryCsv, FinancialCsv, ForecastCsv)
    /\ Started

SpecKpi == InitKpi /\ [][NextView]_vars

\* Time-series files: with or without the Category and Scenario columns, with
\* all year columns or all but "2027", and any categories in the rows.  One of
\* the two files varies while the other is the usual one.
Categories == {"Pendapatan", "Biaya"}

SeriesFiles ==
    {Table(SelectIdx(SeriesCols,
                     {i \in DOMAIN SeriesCols :
                        /\ SeriesCols[i] = "Category" => hasCat
                        /\ SeriesCols[i] = "Scenario" => hasScen
                        /\ SeriesCols[i] = "2027" => hasYears}, 1),
           Len(cat), [Category |-> cat], "100") :
        <<hasCat, hasScen, hasYears, cat>> \in
            BOOLEAN \X BOOLEAN \X BOOLEAN
                \X UNION {[1..n -> Categories] : n \in 0..MaxRows}}

InitSeries ==
    /\ \E cf \in (SeriesFiles \X {ForecastCsv}) \cup ({CombinedCsv} \X SeriesFiles) :
            disk = Disk(cf[1], GrowthCsv, MetricsCsv, SummaryCsv, FinancialFullCsv, cf[2])
    /\ Started

SpecSeries == InitSeries /\ [][NextView]_vars

\* Growth files: up to MaxCols of these columns, in any order, one row.
GrowthNames ==
    {"Scenario", "Revenue_Growth", "EBITDA_Growth", "Notes", "growth_rate"}

GrowthFiles ==
    {Table(cs, 1, <<>>, "1.5") :
        cs \in {s \in UNION {[1..k -> GrowthNames] : k \in 0..MaxCols} :
                    \A i, j \in DOMAIN s : i # j => s[i] # s[j]}}

InitGrowth ==
    /\ \E g \in GrowthFiles :
            disk = Disk(CombinedCsv, g, MetricsCsv, SummaryCsv, FinancialFullCsv, ForecastCsv)
    /\ Started

SpecGrowth == InitGrowth /\ [][NextView]_vars

(***************************************************************************)
(* Properties                                                              *)
(***************************************************************************)
AllNone(t) == \A i \in DOMAIN t : t[i] = None
NoNone(t) == \A i \in DOMAIN t : t[i] # None

\* The places in the last view's output of the elements of a kind in a slot.
Drawn(kind, slot) == {i \in DOMAIN out : out[i].kind = kind /\ out[i].slot = slot}

\* The files on disk are the files the load saw: none was written since.
DiskAsLoaded == pc # "idle" /\ staleness = 0

Unreadable == {n \in FileNames : ~Readable(disk[n])}

Position(n) == CHOOSE i \in DOMAIN ReadOrder : ReadOrder[i] = n

\* The table's name in a file's name: between "xerpihan_" and ".csv".
TableName(n) == SubSeq(n, 10, Len(n) - 4)

\* C1: loading is all-or-nothing.  The load returns six frames or six Nones,
\* never a mixture; the view stops exactly when one of the six reads failed,
\* which is exactly when some slot of the tuple is None; and a stopped view
\* drew nothing but the load's error: no page branch, no footer.
C1_AllOrNothing ==
    /\ cache.full => Len(cache.value) = 6 /\ (AllNone(cache.value) \/ NoNone(cache.value))
    /\ pc # "idle" =>
        /\ Len(data) = 6 /\ (AllNone(data) \/ NoNone(data))
        /\ pc = "stopped" <=> \E i \in DOMAIN cache.value : cache.value[i] = None
        /\ pc = "rendered" <=> NoNone(data)
    /\ DiskAsLoaded => (pc = "stopped" <=> Unreadable # {})
    /\ pc = "stopped" => \A i \in DOMAIN out : out[i].slot = "load_data"

\* C1's case: the first five files loaded, the sixth read failed, and the view
\* stopped with six Nones.
C1_Witness ==
    /\ pc = "stopped"
    /\ DiskAsLoaded
    /\ Unreadable = {ForecastFile}
    /\ reads = ReadOrder
    /\ AllNone(data)

\* C2: with one file missing and the other five well-formed, the load reports
\* exactly one error, the file-not-found message naming that file and no other,
\* returns six Nones, and reads no file after the missing one.
C2_MissingFile ==
    \A n \in FileNames :
        (DiskAsLoaded /\ disk[n].kind = "missing" /\ Unreadable = {n}) =>
            /\ Len(out) = 1
            /\ out[1].kind = "error"
            /\ out[1].text = "Error: File '" \o n \o "' tidak ditemukan. "
                                \o "Pastikan semua file CSV ada di direktori yang benar."
            /\ {f \in FileNames : Contains(out[1].text, f)} = {n}
            /\ AllNone(data) /\ AllNone(cache.value)
            /\ reads = SubSeq(ReadOrder, 1, Position(n))

\* C2's case: the fourth file is missing; three frames were read before it and
\* the two files after it were not opened.
C2_Witness ==
    /\ DiskAsLoaded
    /\ disk[SummaryFile].kind = "missing"
    /\ Unreadable = {SummaryFile}
    /\ pc = "stopped"
    /\ Len(reads) = 4
    /\ Contains(out[1].text, SummaryFile)

\* C3: with one file present but not parsable, the load reports an error that
\* is not the file-not-found message, that names the table that failed, and
\* that carries the parser's reason; no table is returned.
C3_ParseErrorNamesTable ==
    \A n \in FileNames :
        (DiskAsLoaded /\ disk[n].kind = "garbled" /\ Unreadable = {n}) =>
            /\ Len(out) = 1
            /\ out[1].kind = "error"
            /\ ~Contains(out[1].text, "tidak ditemukan")
            /\ Contains(out[1].text, disk[n].reason)
            /\ Contains(out[1].text, n) \/ Contains(out[1].text, TableName(n))
            /\ AllNone(data)

\* C6: the load runs at most once in a session.  Once load_data has run, no
\* step reads a file, runs the body again or changes the memoized result,
\* whatever is written to the files; and a view after a failed load stops
\* with the stored error.
C6_Step ==
    loads >= 1 =>
        /\ reads' = reads
        /\ loads' = loads
        /\ cache' = cache
        /\ (staleness' # 1 /\ Halts(cache.value)) => pc' = "stopped" /\ out' = cache.elements
        /\ (staleness' # 1 /\ ~Halts(cache.value)) => pc' = "rendered"

C6_LoadOnce == [](loads <= 1 /\ Len(reads) <= Len(ReadOrder)) /\ [][C6_Step]_vars

\* C6's case: the first load failed, the files were put right afterwards, and
\* a view after that still stopped on the stored failure.
C6_Witness ==
    /\ staleness = 2
    /\ loads = 1
    /\ Unreadable = {}
    /\ pc = "stopped"
    /\ out = cache.elements

\* The text of the KPI tile with a label, "" when the tile was not drawn.
Tile(label) ==
    IF Drawn("metric", label) = {} THEN ""
    ELSE out[CHOOSE i \in Drawn("metric", label) : TRUE].text

OverviewDrawn == pc = "rendered" /\ page = "Overview"

\* Something was drawn in the slot: its chart, or its error.
Reported(slot) == Drawn("chart", slot) \cup Drawn("error", slot) # {}

\* C4: partial-failure isolation on the Overview page.  A KPI column missing
\* from the metrics table costs only its own tile: the tile of every KPI column
\* the table has is drawn, and the trend chart's slot, the two downloads, the
\* exploration table and the footer are drawn as well.
C4_KpiIsolation ==
    OverviewDrawn =>
        /\ \A k \in DOMAIN KpiColumns :
                HasCol(cache.value[3], KpiColumns[k]) => Drawn("metric", KpiLabels[k]) # {}
        /\ Reported("trend")
        /\ Drawn("download", "financial_metrics.csv") # {}
        /\ Drawn("download", "final_summary.csv") # {}
        /\ Drawn("dataframe", dataset_name) # {}
        /\ out[Len(out)].slot = "footer"

\* C5: the loaded tables are read-only.  When a view ends, the six frames of
\* the run are the six frames that were loaded, and the exploration table
\* shows the loaded frame of the chosen name.
C5_TablesReadOnly ==
    pc = "rendered" =>
        /\ data = cache.value
        /\ \A i \in DOMAIN out :
                out[i].kind = "dataframe" => out[i].frame = Datasets(cache.value)[out[i].slot]

\* C9: the Overview tile for the mean Revenue_CAGR is computed from the
\* financial-metrics table.  When that table's rows are (Optimistic, 12.5) and
\* (Moderate, 8.0), the tile shows 10.25 whatever the other tables hold.
C9_KpiFromFinancialMetrics ==
    (/\ OverviewDrawn
     /\ cache.value[5].cols = <<"Scenario", "Revenue_CAGR">>
     /\ cache.value[5].col["Scenario"] = <<Str("Optimistic"), Str("Moderate")>>
     /\ cache.value[5].col["Revenue_CAGR"] = <<Num(1250), Num(800)>>)
        => Tile("Rata-rata Revenue CAGR") = "10.25%"

ForecastingDrawn == pc = "rendered" /\ page = "Forecasting"

\* The one element drawn in a slot that holds exactly one chart or error.
Only(slot) == out[CHOOSE i \in Drawn("chart", slot) \cup Drawn("error", slot) : TRUE]

RevenueRows(df) ==
    /\ "Category" \in Range(df.cols)
    /\ \E i \in DOMAIN df.col["Category"] : df.col["Category"][i].s = "Pendapatan"

AllYears(df) == \A y \in 2024..2031 : ToString(y) \in Range(df.cols)

\* What the claim says of the slot whatever the table: one element, chart or
\* error; no revenue row, the missing-category error; revenue rows but a year
\* column absent, the missing-year-columns error; no Category column, an error.
SeriesErrors(slot, df) ==
    /\ Cardinality(Drawn("chart", slot)) + Cardinality(Drawn("error", slot)) = 1
    /\ "Category" \notin Range(df.cols) =>
            Only(slot).kind = "error" /\ Contains(Only(slot).text, "'Category'")
    /\ ("Category" \in Range(df.cols) /\ ~RevenueRows(df)) =>
            Only(slot).kind = "error" /\ Contains(Only(slot).text, "Tidak ada data")
    /\ (RevenueRows(df) /\ ~AllYears(df)) =>
            Only(slot).kind = "error" /\ Contains(Only(slot).text, "kolom tahun tidak ada")

\* C7 as claimed: the chart is built if and only if the filter yields a row
\* and all eight year columns are present.
SeriesAsClaimed(slot, df) ==
    /\ SeriesErrors(slot, df)
    /\ Drawn("chart", slot) # {} <=> (RevenueRows(df) /\ AllYears(df))

C7_ChartIffRowsAndYears ==
    /\ OverviewDrawn => SeriesAsClaimed("trend", cache.value[1])
    /\ ForecastingDrawn => SeriesAsClaimed("forecast", cache.value[6])

\* C7, amended: the chart is built only if the filter yields a row and all
\* eight year columns are present; with no revenue row exactly one
\* missing-category error is drawn, with a year column absent exactly one
\* missing-year-columns error, with no Category column exactly one error; and
\* in every case the slot holds exactly one element, the chart or an error.
SeriesAmended(slot, df) ==
    /\ SeriesErrors(slot, df)
    /\ Drawn("chart", slot) # {} => (RevenueRows(df) /\ AllYears(df))

C7_ChartOnlyIfRowsAndYears ==
    /\ OverviewDrawn => SeriesAmended("trend", cache.value[1])
    /\ ForecastingDrawn => SeriesAmended("forecast", cache.value[6])

\* C7's case: the forecast table has revenue rows but not all year columns,
\* and the slot holds the missing-year-columns error and no chart.
C7_Witness ==
    /\ ForecastingDrawn
    /\ RevenueRows(cache.value[6])
    /\ ~AllYears(cache.value[6])
    /\ Drawn("chart", "forecast") = {}
    /\ Cardinality(Drawn("error", "forecast")) = 1

\* The numbers the tokens of the model's metrics files spell, in hundredths.
TokenValue ==
    [t \in {"12.5", "8.0", "0.6", "4.0", "20.5"} |->
        CASE t = "12.5" -> 1250 [] t = "8.0" -> 800 [] t = "0.6" -> 60
          [] t = "4.0" -> 400 [] t = "20.5" -> 2050]

RECURSIVE SumOver(_, _)
SumOver(tokens, idx) ==
    IF idx = {} THEN 0
    ELSE LET i == CHOOSE j \in idx : TRUE
         IN  TokenValue[tokens[i]] + SumOver(tokens, idx \ {i})

Abs(x) == IF x < 0 THEN 0 - x ELSE x

\* The tile shows the mean of the numbers among the tokens, to the nearest
\* hundredth, and "nan" when there is none.
ShowsMean(text, tokens) ==
    LET idx == {i \in DOMAIN tokens : tokens[i] \in DOMAIN TokenValue}
        n == Cardinality(idx)
        shown == ParseFloat(SubSeq(text, 1, Len(text) - 1))
    IN  /\ Len(text) > 1
        /\ SubSeq(text, Len(text), Len(text)) = "%"
        /\ IF n = 0 THEN text = "nan%"
           ELSE /\ IsNumeric(SubSeq(text, 1, Len(text) - 1))
                /\ 2 * Abs(shown * n - SumOver(tokens, idx)) <= n

\* C8: numeric coercion and the KPI mean.  With the three KPI columns in the
\* metrics file, each coerced column holds the number of a numeric token and
\* a missing value in place of any other token; each tile shows the mean of
\* the numbers alone, and "nan", not zero, when the column has none; and the
\* warning is drawn exactly when some entry of the three columns is missing.
C8_CoercionAndMean ==
    (/\ OverviewDrawn
     /\ DiskAsLoaded
     /\ \A k \in DOMAIN KpiColumns : KpiColumns[k] \in Range(disk[MetricsFile].cols)) =>
        /\ \A k \in DOMAIN KpiColumns :
            LET tokens == disk[MetricsFile].col[KpiColumns[k]]
                cells == data[3].col[KpiColumns[k]]
            IN  /\ DOMAIN cells = DOMAIN tokens
                /\ \A i \in DOMAIN tokens :
                        cells[i] = IF tokens[i] \in DOMAIN TokenValue
                                   THEN Num(TokenValue[tokens[i]]) ELSE NaN
                /\ Cardinality(Drawn("metric", KpiLabels[k])) = 1
                /\ ShowsMean(Tile(KpiLabels[k]), tokens)
        /\ Drawn("warning", "kpi") # {} <=>
                \E k \in DOMAIN KpiColumns :
                    \E i \in DOMAIN disk[MetricsFile].col[KpiColumns[k]] :
                        disk[MetricsFile].col[KpiColumns[k]][i] \notin DOMAIN TokenValue

\* C8's case: Revenue_CAGR holds a number and a token that is none, so its
\* tile is the mean of the one number; Avg_EBITDA_Margin holds no number, so
\* its tile is "nan"; and the warning is drawn.
C8_Witness ==
    /\ OverviewDrawn
    /\ DiskAsLoaded
    /\ disk[MetricsFile].cols = MetricsCols
    /\ disk[MetricsFile].col["Revenue_CAGR"] = <<"12.5", "abc">>
    /\ disk[MetricsFile].col["Avg_EBITDA_Margin"] = <<"abc", "abc">>
    /\ Tile("Rata-rata Revenue CAGR") = "12.50%"
    /\ Tile("Rata-rata EBITDA Margin") = "nan%"
    /\ Drawn("warning", "kpi") # {}

\* The columns of the model's growth files whose name contains "Growth".
GrowthNamed == {"Revenue_Growth", "EBITDA_Growth"}

\* g is the columns of cs that are in keep, each once, in the order of cs.
IsFilterOf(g, cs, keep) ==
    /\ Range(g) = Range(cs) \cap keep
    /\ \A a, b \in DOMAIN g :
            a < b => \E i, j \in DOMAIN cs : i < j /\ cs[i] = g[a] /\ cs[j] = g[b]

\* C10: growth-column discovery returns exactly the columns whose name
\* contains "Growth", in the table's order.  For Scenario, Revenue_Growth,
\* EBITDA_Growth, Notes it is Revenue_Growth, EBITDA_Growth; when there is
\* none, one error is drawn in the chart's slot and no chart; and a chart that
\* is drawn is of those columns, in that order.
C10_GrowthColumns ==
    ForecastingDrawn =>
        LET df == cache.value[2]
            g == GrowthCols(df)
        IN  /\ IsFilterOf(g, df.cols, GrowthNamed)
            /\ df.cols = <<"Scenario", "Revenue_Growth", "EBITDA_Growth", "Notes">>
                    => g = <<"Revenue_Growth", "EBITDA_Growth">>
            /\ Cardinality(Drawn("chart", "growth")) + Cardinality(Drawn("error", "growth")) = 1
            /\ Range(df.cols) \cap GrowthNamed = {} =>
                    /\ Only("growth").kind = "error"
                    /\ Contains(Only("growth").text, "Tidak ada kolom pertumbuhan")
            /\ Only("growth").kind = "chart" =>
                    /\ Range(df.cols) \cap GrowthNamed # {}
                    /\ IsFilterOf([i \in DOMAIN Only("growth").frame.col["variable"] |->
                                        Only("growth").frame.col["variable"][i].s],
                                  df.cols, GrowthNamed)

\* C10's case: the table of the spec's scenario, and the chart drawn of its
\* two growth columns in the table's order.
C10_Witness ==
    /\ ForecastingDrawn
    /\ cache.value[2].cols = <<"Scenario", "Revenue_Growth", "EBITDA_Growth", "Notes">>
    /\ Only("growth").kind = "chart"
    /\ Only("growth").frame.col["variable"] = <<Str("Revenue_Growth"), Str("EBITDA_Growth")>>

====
